---- MODULE Spec2Model ----
(***************************************************************************)
(* DarkDB: an in-memory document tree behind a FIFO task serializer        *)
(* (Mutex), with TTL expiry, an inverted index, debounced saves and        *)
(* snapshot transactions.                                                  *)
(*                                                                         *)
(* Representation.                                                         *)
(*  - A key string is the sequence of the pieces that key.split(separator) *)
(*    yields: "a.0" is <<"a","0">>, "." is <<"","">>, "" is <<"">>.        *)
(*  - A JSON value is a function from relative paths (sequences of         *)
(*    property names) to nodes; the root of the value is the path <<>>.    *)
(*    A missing property is a path outside the domain, so an array hole is *)
(*    an index below the array's length that is outside the domain.        *)
(*    undefined is the function with the empty domain.                     *)
(*  - Object key order is not represented.                                 *)
(*  - Hooks may throw.  Of the event listeners, one of "reset" may throw    *)
(*    (transaction emits inside its try block); listeners of "set" and     *)
(*    "delete" return.                                                     *)
(***************************************************************************)
EXTENDS Integers, Sequences, FiniteSets, TLC

-----------------------------------------------------------------------------
(* Bounds of the model *)

\* the clock runs from 0 to MaxTime
MaxTime == 1
\* operations a transaction body performs on its handle, at most
MaxTxOps == 1
\* units a client submits without awaiting, at most (SpecQ)
MaxUnits == 3
\* searches a caller makes, at most (SpecIx)
MaxSearches == 1
\* the largest skip and limit of a query (SpecQy)
MaxSlice == 2
\* the clock runs from 0 to MaxClock where the debounce window is modelled
MaxClock == 4
\* the debounce window there, in milliseconds
DebounceMs == 2
\* mutations submitted there, at most (SpecDeb)
MaxBurst == 2

-----------------------------------------------------------------------------
(* The state of a store and of its callers *)

VARIABLES
    data,       \* this._data
    expires,    \* this._expires
    indexes,    \* this._indexManager.indexes
    saveTimer,  \* a timer set by _scheduleSave is pending
    saveLeft,   \* the milliseconds until the pending timer is due
    events,     \* the events the listeners have received (kept when listening)
    listening,  \* listeners are registered with on()
    autoFile,   \* options.autoFile
    debounceMs, \* options.debounceMs
    atomic,     \* options.atomic
    disk,       \* the files: the data file, the metadata file and their .tmp
    now,        \* Date.now()
    queue,      \* this._mutex.queue: the tasks not started, [id, op, waited, at];
                \* waited: the mutex was locked when the unit was submitted,
                \* at: the time it was submitted (kept when track)
    locked,     \* this._mutex.locked
    running,    \* the tasks started and not completed, [id, op, waited, pc, loc]
    nextId,     \* units submitted so far (counted when track)
    track,      \* history is kept in full
    started,    \* ids in the order the units started (kept when track)
    finished    \* the completed units, oldest first when track; otherwise the
                \* transaction that completed last, until the next call

-----------------------------------------------------------------------------
(* Nodes and values *)

ObjN == [t |-> "obj"]
ArrN(n) == [t |-> "arr", len |-> n]
NumN(i) == [t |-> "num", n |-> i]
StrN(s) == [t |-> "str", s |-> s]
NullN == [t |-> "null"]

\* typeof x === "object" && x !== null
IsContainer(node) == node.t \in {"obj", "arr"}

\* undefined
Absent == << >>

\* {}
EmptyObj == [p \in {<< >>} |-> ObjN]

\* the property names that are array indices, in order: index i is IdxSegs[i+1]
IdxSegs == <<"0", "1", "2">>
IsIdx(seg) == \E i \in 1..Len(IdxSegs) : IdxSegs[i] = seg
IdxOf(seg) == (CHOOSE i \in 1..Len(IdxSegs) : IdxSegs[i] = seg) - 1

IsPrefix(p, x) == Len(p) <= Len(x) /\ SubSeq(x, 1, Len(p)) = p
Drop(x, n) == SubSeq(x, n + 1, Len(x))

\* the value at path p of tree (Absent when there is none)
Sub(tree, p) ==
    LET D == {x \in DOMAIN tree : IsPrefix(p, x)}
    IN [q \in {Drop(x, Len(p)) : x \in D} |-> tree[p \o q]]

\* tree without the property at path p
Remove(tree, p) == [x \in {y \in DOMAIN tree : ~IsPrefix(p, y)} |-> tree[x]]

\* tree with value v at path p
Graft(tree, p, v) ==
    LET base == Remove(tree, p)
    IN [x \in DOMAIN base \cup {p \o q : q \in DOMAIN v} |->
            IF IsPrefix(p, x) THEN v[Drop(x, Len(p))] ELSE base[x]]

\* obj[k] = v, obj the container at path ref: a write at or past an array's
\* length extends the array
AssignChild(tree, ref, k, v) ==
    LET g == Graft(tree, ref \o <<k>>, v)
    IN IF g[ref].t = "arr" /\ IsIdx(k) /\ IdxOf(k) >= g[ref].len
       THEN [g EXCEPT ![ref] = ArrN(IdxOf(k) + 1)]
       ELSE g

\* JSON.parse(JSON.stringify(tree)) of a defined value: an array keeps its
\* indices below its length only, and a hole comes back as null
JsonKept(tree, x) ==
    \A i \in 1..Len(x) :
        LET p == SubSeq(x, 1, i - 1)
        IN tree[p].t = "arr" => (IsIdx(x[i]) /\ IdxOf(x[i]) < tree[p].len)

JsonHoles(tree) ==
    LET arrs == {y \in DOMAIN tree : tree[y].t = "arr" /\ JsonKept(tree, y)}
        cand == {c \in arrs \X (1..Len(IdxSegs)) :
                    /\ c[2] - 1 < tree[c[1]].len
                    /\ (c[1] \o <<IdxSegs[c[2]]>>) \notin DOMAIN tree}
    IN {c[1] \o <<IdxSegs[c[2]]>> : c \in cand}

JsonRoundTrip(tree) ==
    LET kept == {x \in DOMAIN tree : JsonKept(tree, x)}
    IN [x \in kept \cup JsonHoles(tree) |-> IF x \in kept THEN tree[x] ELSE NullN]

\* JSON.stringify(v), as the value its text denotes; undefined has no text
Stringify(v) == IF v = Absent THEN Absent ELSE JsonRoundTrip(v)

-----------------------------------------------------------------------------
(* Path resolution: DarkDB._resolvePath, _getRef, _getSync *)

\* typeof key !== "string" || !key.length
ResolveThrows(key) == key = <<"">>

\* key.split(separator).filter(Boolean)
ResolvePath(key) == SelectSeq(key, LAMBDA s : s # "")

\* keys[keys.length - 1], used as a property name
LastOf(keys) == IF keys = << >> THEN "undefined" ELSE keys[Len(keys)]

RECURSIVE GetRefWalk(_, _, _, _, _)
GetRefWalk(tree, keys, i, p, create) ==
    IF i > Len(keys) - 1
    THEN [ok |-> TRUE, tree |-> tree, ref |-> p, last |-> LastOf(keys)]
    ELSE LET c == p \o <<keys[i]>>
             usable == c \in DOMAIN tree /\ IsContainer(tree[c])
         IN IF usable THEN GetRefWalk(tree, keys, i + 1, c, create)
            ELSE IF create
                 THEN GetRefWalk(AssignChild(tree, p, keys[i], EmptyObj), keys, i + 1, c, create)
                 ELSE [ok |-> FALSE, tree |-> tree, ref |-> << >>, last |-> "undefined"]

GetRef(tree, keys, create) == GetRefWalk(tree, keys, 1, << >>, create)

RECURSIVE GetWalk(_, _, _)
GetWalk(tree, p, rest) ==
    IF rest = << >> THEN Sub(tree, p)
    ELSE IF ~IsContainer(tree[p]) \/ (p \o <<Head(rest)>>) \notin DOMAIN tree
         THEN Absent
         ELSE GetWalk(tree, p \o <<Head(rest)>>, Tail(rest))

GetSync(tree, key) == GetWalk(tree, << >>, ResolvePath(key))

-----------------------------------------------------------------------------
(* IndexManager: the table maps a word to the set of keys posted under it *)

\* options.indexFields || ["title", "description"]
indexFields == <<"title", "description">>

\* the characters of the modelled texts; " " is whitespace
Lower(c) == IF c = "N" THEN "n" ELSE c
IsSpace(c) == c = " "

\* text.toLowerCase().split(/\s+/).filter(Boolean)
RECURSIVE SplitWords(_, _, _)
SplitWords(text, cur, acc) ==
    IF text = << >>
    THEN IF cur = << >> THEN acc ELSE Append(acc, cur)
    ELSE IF IsSpace(Head(text))
         THEN SplitWords(Tail(text), << >>, IF cur = << >> THEN acc ELSE Append(acc, cur))
         ELSE SplitWords(Tail(text), Append(cur, Head(text)), acc)

Tokenize(text) == SplitWords([i \in 1..Len(text) |-> Lower(text[i])], << >>, << >>)

\* IndexManager.delete
IndexDelete(idx, key) ==
    [w \in {x \in DOMAIN idx : ~(key \in idx[x] /\ idx[x] = {key})} |-> idx[w] \ {key}]

\* IndexManager.indexText
RECURSIVE IndexWords(_, _, _)
IndexWords(idx, key, words) ==
    IF words = << >> THEN idx
    ELSE LET w == Head(words)
             posted == IF w \in DOMAIN idx THEN idx[w] ELSE {}
         IN IndexWords([x \in DOMAIN idx \cup {w} |-> IF x = w THEN posted \cup {key} ELSE idx[x]],
                       key, Tail(words))

IndexText(idx, key, text) == IndexWords(idx, key, Tokenize(text))

RECURSIVE IndexFieldsOf(_, _, _, _)
IndexFieldsOf(idx, key, value, i) ==
    IF i > Len(indexFields) THEN idx
    ELSE LET f == <<indexFields[i]>>
             isText == f \in DOMAIN value /\ value[f].t = "str" /\ value[f].s # << >>
         IN IndexFieldsOf(IF isText THEN IndexText(idx, key, value[f].s) ELSE idx,
                          key, value, i + 1)

\* IndexManager.update
IndexUpdate(idx, key, value) ==
    LET d == IndexDelete(idx, key)
    IN IF value # Absent /\ IsContainer(value[<< >>])
       THEN IndexFieldsOf(d, key, value, 1)
       ELSE d

\* IndexManager.clear
EmptyIndex == << >>

\* the key string _rebuildIndex builds for a path: the segments joined by the
\* separator, "" for the root
PathKey(p) == IF p = << >> THEN <<"">> ELSE p

\* DarkDB._rebuildIndex: update(key, obj) for every container of the tree; the
\* keys of different paths differ, so the order of the visits does not matter
RECURSIVE IndexAll(_, _, _)
IndexAll(idx, tree, paths) ==
    IF paths = {} THEN idx
    ELSE LET p == CHOOSE x \in paths : TRUE
         IN IndexAll(IndexUpdate(idx, PathKey(p), Sub(tree, p)), tree, paths \ {p})

RebuildIndex(tree) ==
    IndexAll(EmptyIndex, tree, {p \in DOMAIN tree : IsContainer(tree[p])})

\* IndexManager.search: the array it returns, as the set of its elements
\* this.indexes.get(word) || []
Postings(idx, word) == IF word \in DOMAIN idx THEN idx[word] ELSE {}

\* for (let i = 1; ...): if (!wordResults) return []; results = the elements
\* of results that wordResults has
RECURSIVE SearchRest(_, _, _)
SearchRest(idx, results, words) ==
    IF words = << >> THEN results
    ELSE IF Head(words) \notin DOMAIN idx THEN {}
         ELSE SearchRest(idx, results \cap idx[Head(words)], Tail(words))

SearchWords(idx, words) ==
    IF words = << >> THEN {}
    ELSE IF Postings(idx, Head(words)) = {} THEN {}
         ELSE SearchRest(idx, Postings(idx, Head(words)), Tail(words))

IndexSearch(idx, query) == SearchWords(idx, Tokenize(query))

-----------------------------------------------------------------------------
(* The expiry table: the entries of this._expires in insertion order *)

ExpHas(E, k) == \E i \in 1..Len(E) : E[i].k = k
ExpAt(E, k) == E[CHOOSE i \in 1..Len(E) : E[i].k = k].exp
\* this._expires[k] = t
ExpSet(E, k, t) ==
    IF ExpHas(E, k)
    THEN [i \in 1..Len(E) |-> IF E[i].k = k THEN [k |-> k, exp |-> t] ELSE E[i]]
    ELSE Append(E, [k |-> k, exp |-> t])
\* delete this._expires[k]
ExpDel(E, k) == SelectSeq(E, LAMBDA e : e.k # k)

\* DarkDB._isExpired
IsExpired(E, k, t) == ExpHas(E, k) /\ t >= ExpAt(E, k)

-----------------------------------------------------------------------------
(* The synchronous core of a store.  S is the state one DarkDB object       *)
(* works on: [data, expires, idx, timer, left, events, listen, now]; idx    *)
(* is its _indexManager, timer tells whether a save timer is pending and    *)
(* left the milliseconds until it is due, events are the events its         *)
(* listeners have received (kept when listen: listeners are registered),    *)
(* now is Date.now().  af is the object's autoFile option.                  *)

\* DarkDB._scheduleSave: if (!this.autoFile) return; clearTimeout of the
\* pending timer, setTimeout(..., this.debounceMs)
\* a _scheduleSave that leaves a pending timer as it is
ScheduleSaveNoRestart(S, af) ==
    IF af THEN [S EXCEPT !.timer = TRUE, !.left = IF S.timer THEN S.left ELSE debounceMs]
    ELSE S

ScheduleSave(S, af) ==
    IF af THEN [S EXCEPT !.timer = TRUE, !.left = debounceMs] ELSE S

\* DarkDB._emit: the listeners of type and of "change" run at once; each
\* event is kept with the expiry table its listeners saw
Emit(S, type, key) ==
    IF S.listen
    THEN [S EXCEPT !.events = Append(@, [type |-> type, key |-> key, expires |-> S.expires])]
    ELSE S

\* DarkDB._setSync, for a key _resolvePath accepts
\* r is what _getRef returned: const oldValue = ref[last]; ref[last] = value;
\* the index is updated when the value changed
SetSyncAt(S, af, key, value, r) ==
    ScheduleSave(Emit([S EXCEPT !.data = AssignChild(r.tree, r.ref, r.last, value),
                                !.idx = IF Stringify(Sub(r.tree, r.ref \o <<r.last>>))
                                           # Stringify(value)
                                        THEN IndexUpdate(S.idx, key, value)
                                        ELSE S.idx], "set", key), af)

SetSync(S, af, key, value) ==
    SetSyncAt(S, af, key, value, GetRef(S.data, ResolvePath(key), TRUE))

\* DarkDB._deleteSync, for a key _resolvePath accepts
\* r is what _getRef returned: if (!ref || !(last in ref)) return false;
\* delete ref[last]
DeleteSyncAt(S, af, key, r) ==
    IF ~r.ok \/ (r.ref \o <<r.last>>) \notin DOMAIN S.data
    THEN [ok |-> FALSE, S |-> S]
    ELSE [ok |-> TRUE,
          S |-> ScheduleSave(Emit([S EXCEPT !.data = Remove(S.data, r.ref \o <<r.last>>),
                                            !.idx = IndexDelete(S.idx, key)],
                                  "delete", key), af)]

DeleteSync(S, af, key) ==
    DeleteSyncAt(S, af, key, GetRef(S.data, ResolvePath(key), FALSE))

\* delete this._expires[key]
ExpiresDelete(S, key) == [S EXCEPT !.expires = ExpDel(S.expires, key)]

\* DarkDB._cleanupExpiredSync: the loop runs over the entries the table had
\* when it started, in insertion order
RECURSIVE CleanupLoop(_, _, _, _)
CleanupLoop(S, af, entries, changed) ==
    IF entries = << >>
    THEN IF changed THEN ScheduleSave(S, af) ELSE S
    ELSE IF S.now >= Head(entries).exp
         THEN CleanupLoop(ExpiresDelete(DeleteSync(S, af, Head(entries).k).S,
                                        Head(entries).k),
                          af, Tail(entries), TRUE)
         ELSE CleanupLoop(S, af, Tail(entries), changed)

CleanupExpiredSync(S, af) == CleanupLoop(S, af, S.expires, FALSE)

-----------------------------------------------------------------------------
(* Operations.  An operation is [name, key, val, ttl]; what a body returns  *)
(* is [S, ok, res]: the state it leaves, whether it returned (ok) or threw, *)
(* and the value returned, res = [val, flag, names, rows], of which each          *)
(* operation fills the part it returns; rows is the array query returns,    *)
(* a sequence of [key, value].                                             *)

NoKey == <<"">>
Op(name, key, val, ttl) == [name |-> name, key |-> key, val |-> val, ttl |-> ttl]

NoRes == [val |-> Absent, flag |-> FALSE, names |-> {}, rows |-> << >>]
ValRes(v) == [NoRes EXCEPT !.val = v]
FlagRes(b) == [NoRes EXCEPT !.flag = b]
NamesRes(n) == [NoRes EXCEPT !.names = n]
RowsRes(r) == [NoRes EXCEPT !.rows = r]

Returns(S, res) == [S |-> S, ok |-> TRUE, res |-> res]
Throws(S) == [S |-> S, ok |-> FALSE, res |-> NoRes]

\* set, from the end of its pre hooks to the start of its post hooks
\* if (opts.ttlMs) this._expires[key] = Date.now() + opts.ttlMs;
\* else delete this._expires[key]
ExpiresSet(S, key, ttl) ==
    [S EXCEPT !.expires = IF ttl > 0
                          THEN ExpSet(S.expires, key, S.now + ttl)
                          ELSE ExpDel(S.expires, key)]

SetBody(S, af, key, value, ttl) ==
    IF ResolveThrows(key) THEN Throws(S)
    ELSE Returns(ExpiresSet(SetSync(S, af, key, value), key, ttl), ValRes(value))

\* delete, from the end of its pre hooks to the start of its post hooks
\* d is what _deleteSync returned, with the state it left
DeleteReturns(d, key) == Returns(ExpiresDelete(d.S, key), FlagRes(d.ok))

DeleteBody(S, af, key) ==
    IF ResolveThrows(key) THEN Throws(S)
    ELSE DeleteReturns(DeleteSync(S, af, key), key)

\* add, remove, incr, decr: DarkDB._numOp.  The operation carries its
\* argument n (1 for incr and decr).
IsNumOp(name) == name \in {"add", "remove", "incr", "decr"}
NumV(i) == [p \in {<< >>} |-> NumN(i)]
\* const base = typeof cur === "number" ? cur : 0
NumBase(cur) == IF cur # Absent /\ cur[<< >>].t = "num" THEN cur[<< >>].n ELSE 0
\* op(base, n): (a, b) => a + b for add and incr, (a, b) => a - b otherwise
NumApply(name, base, n) == IF name \in {"add", "incr"} THEN base + n ELSE base - n
\* this._setSync(key, val); return val
NumSet(S, af, key, val) == Returns(SetSync(S, af, key, NumV(val)), ValRes(NumV(val)))

NumOpBody(S, af, name, key, n) ==
    IF ResolveThrows(key) THEN Throws(S)
    ELSE NumSet(S, af, key, NumApply(name, NumBase(GetSync(S.data, key)), n))

\* get; the clock may advance by dt between the sweep and _isExpired
Advance(S, dt) == [S EXCEPT !.now = S.now + dt]

\* get after its sweep: if (this._isExpired(key)) { ... return undefined; }
\* return this._getSync(key)
GetSwept(c, af, key) ==
    IF IsExpired(c.expires, key, c.now)
    THEN IF ResolveThrows(key) THEN Throws(c)
         ELSE Returns(ExpiresDelete(DeleteSync(c, af, key).S, key), ValRes(Absent))
    ELSE IF ResolveThrows(key) THEN Throws(c)
         ELSE Returns(c, ValRes(GetSync(c.data, key)))

GetBody(S, af, key, dt) == GetSwept(Advance(CleanupExpiredSync(S, af), dt), af, key)

\* g is what get returned: !== undefined
HasReturns(g) == IF g.ok THEN Returns(g.S, FlagRes(g.res.val # Absent)) ELSE g

\* has: (await this.get(key)) !== undefined
HasBody(S, af, key, dt) == HasReturns(GetBody(S, af, key, dt))

\* export: JSON.parse(JSON.stringify(this._data))
ExportBody(S) == Returns(S, ValRes(JsonRoundTrip(S.data)))

\* all: the sweep, then JSON.parse(JSON.stringify(this._data))
AllBody(S, af) == ExportBody(CleanupExpiredSync(S, af))

\* keyPrefix ? this._getSync(keyPrefix) : this._data, of keys, values,
\* entries, find and query; Absent stands for a root that is no container
PrefixRoot(S, prefix) ==
    LET root == IF prefix = NoKey THEN S.data ELSE GetSync(S.data, prefix)
    IN IF root # Absent /\ IsContainer(root[<< >>]) THEN root ELSE Absent

ChildNames(root) == {x[1] : x \in {y \in DOMAIN root : Len(y) = 1}}

\* keys: Object.keys(root)
KeysBody(S, prefix) == Returns(S, NamesRes(ChildNames(PrefixRoot(S, prefix))))

\* entries: Object.entries(root), as the container itself
EntriesBody(S, prefix) == Returns(S, ValRes(PrefixRoot(S, prefix)))

-----------------------------------------------------------------------------
(* Queries: DarkDB.query.  A filter is one of                               *)
(*   [t |-> "fields", rules |-> <<[field, rule], ...>>]                     *)
(*   [t |-> "and", subs |-> <<filter, ...>>], [t |-> "or", subs |-> ...],   *)
(*   [t |-> "not", sub |-> filter]                                          *)
(* and a rule is a literal [t |-> "lit", v |-> value] or an operator        *)
(* object [t |-> "ops", ops |-> <<[op, cmp], ...>>]; cmp is a value, and    *)
(* for $in and $nin a sequence of values.  The modelled documents hold a    *)
(* number in a field that is compared by order, or lack the field.          *)

Fields(rules) == [t |-> "fields", rules |-> rules]
And(subs) == [t |-> "and", subs |-> subs]
Or(subs) == [t |-> "or", subs |-> subs]
Not(sub) == [t |-> "not", sub |-> sub]
Lit(v) == [t |-> "lit", v |-> v]
OpRule(ops) == [t |-> "ops", ops |-> ops]
Rule(field, rule) == [field |-> field, rule |-> rule]
Cmp(op, cmp) == [op |-> op, cmp |-> cmp]

\* options: sort is {field: order} or not given (order 0); skip and limit
\* are numbers, or not given
NoSort == [field |-> "", order |-> 0]
NotGiven == [given |-> FALSE, n |-> 0]
Given(n) == [given |-> TRUE, n |-> n]
NoOptions == [sort |-> NoSort, skip |-> NotGiven, limit |-> NotGiven]

\* Object.entries(root): the names that are array indices in ascending order,
\* then the others (of which the queried containers of this model have at
\* most one: insertion order is not represented)
RECURSIVE SeqOf(_)
SeqOf(names) ==
    IF names = {} THEN << >>
    ELSE <<CHOOSE n \in names : TRUE>> \o SeqOf(names \ {CHOOSE n \in names : TRUE})

EntryNames(root) ==
    SelectSeq(IdxSegs, LAMBDA n : <<n>> \in DOMAIN root)
        \o SeqOf({n \in ChildNames(root) : ~IsIdx(n)})

\* typeof v === "object"
TypeofObject(v) == v # Absent /\ v[<< >>].t \in {"obj", "arr", "null"}

\* val === cmp of a field and a literal of the filter: an object of the tree
\* is never the object of the filter
StrictEq(val, cmp) ==
    val # Absent /\ val[<< >>].t \in {"num", "str", "null"} /\ val = cmp

\* val < cmp: undefined compares false with every number
Less(val, cmp) ==
    /\ val # Absent /\ val[<< >>].t = "num"
    /\ cmp # Absent /\ cmp[<< >>].t = "num"
    /\ val[<< >>].n < cmp[<< >>].n

\* cmp.includes(val)
Includes(cmp, val) == \E i \in 1..Len(cmp) : StrictEq(val, cmp[i])

\* one case of the switch: TRUE when the loop goes on
TestOp(op, val, cmp) ==
    CASE op = "$eq" -> StrictEq(val, cmp)
      [] op = "$ne" -> ~StrictEq(val, cmp)
      [] op = "$gt" -> Less(cmp, val)
      [] op = "$gte" -> Less(cmp, val) \/ StrictEq(val, cmp)
      [] op = "$lt" -> Less(val, cmp)
      [] op = "$lte" -> Less(val, cmp) \/ StrictEq(val, cmp)
      [] op = "$in" -> Includes(cmp, val)
      [] OTHER -> ~Includes(cmp, val)

\* for (const [op, cmp] of Object.entries(rule))
RECURSIVE RuleOps(_, _)
RuleOps(val, ops) ==
    IF ops = << >> THEN TRUE
    ELSE IF ~TestOp(Head(ops).op, val, Head(ops).cmp) THEN FALSE
         ELSE RuleOps(val, Tail(ops))

RuleHolds(val, rule) ==
    IF rule.t = "ops" THEN RuleOps(val, rule.ops) ELSE StrictEq(val, rule.v)

\* match(obj, cond) is "true", "false" or "throw" (a TypeError: obj[field]
\* of null)
\* for (const [field, rule] of Object.entries(cond))
RECURSIVE FieldRules(_, _)
FieldRules(obj, rules) ==
    IF rules = << >> THEN "true"
    ELSE IF obj[<< >>].t = "null" THEN "throw"
         ELSE IF ~RuleHolds(Sub(obj, <<Head(rules).field>>), Head(rules).rule) THEN "false"
              ELSE FieldRules(obj, Tail(rules))

Negate(m) == IF m = "true" THEN "false" ELSE IF m = "false" THEN "true" ELSE m

RECURSIVE Match(_, _)
RECURSIVE Every(_, _)
RECURSIVE Some(_, _)
\* every stops at the first sub-filter that does not match, some at the
\* first that does
EveryNext(m, obj, rest) == IF m = "true" THEN Every(obj, rest) ELSE m
SomeNext(m, obj, rest) == IF m = "false" THEN Some(obj, rest) ELSE m
Every(obj, subs) ==
    IF subs = << >> THEN "true" ELSE EveryNext(Match(obj, Head(subs)), obj, Tail(subs))
Some(obj, subs) ==
    IF subs = << >> THEN "false" ELSE SomeNext(Match(obj, Head(subs)), obj, Tail(subs))
Match(obj, cond) ==
    CASE cond.t = "and" -> Every(obj, cond.subs)
      [] cond.t = "or" -> Some(obj, cond.subs)
      [] cond.t = "not" -> Negate(Match(obj, cond.sub))
      [] OTHER -> FieldRules(obj, cond.rules)

\* the outcome of a part of query: it threw, or the rows so far
QThrew == [ok |-> FALSE, rows |-> << >>]
QRows(rows) == [ok |-> TRUE, rows |-> rows]

\* for (const [k, v] of Object.entries(root))
\*     if (typeof v === "object" && match(v, filter)) out.push({key: k, value: v})
RECURSIVE QueryLoop(_, _, _, _)
QueryTake(m, root, names, filter, rows) ==
    IF m = "throw" THEN QThrew
    ELSE QueryLoop(root, Tail(names), filter,
                   IF m = "true"
                   THEN Append(rows, [key |-> Head(names),
                                      value |-> Sub(root, <<Head(names)>>)])
                   ELSE rows)
QueryLoop(root, names, filter, rows) ==
    IF names = << >> THEN QRows(rows)
    ELSE IF TypeofObject(Sub(root, <<Head(names)>>))
         THEN QueryTake(Match(Sub(root, <<Head(names)>>), filter),
                        root, names, filter, rows)
         ELSE QueryLoop(root, Tail(names), filter, rows)

\* the comparator of out.sort: negative, positive or 0
Compare(a, b, sort) ==
    IF Less(Sub(a.value, <<sort.field>>), Sub(b.value, <<sort.field>>))
    THEN (IF sort.order = 1 THEN -1 ELSE 1)
    ELSE IF Less(Sub(b.value, <<sort.field>>), Sub(a.value, <<sort.field>>))
         THEN (IF sort.order = 1 THEN 1 ELSE -1)
         ELSE 0

\* Array.prototype.sort is stable: each row goes behind the rows that do not
\* compare greater
RECURSIVE InsertRow(_, _, _)
InsertRow(sorted, row, sort) ==
    IF sorted = << >> THEN <<row>>
    ELSE IF Compare(Head(sorted), row, sort) <= 0
         THEN <<Head(sorted)>> \o InsertRow(Tail(sorted), row, sort)
         ELSE <<row>> \o sorted

RECURSIVE SortRows(_, _, _)
SortRows(rows, sort, sorted) ==
    IF rows = << >> THEN sorted
    ELSE SortRows(Tail(rows), sort, InsertRow(sorted, Head(rows), sort))

\* if (options.sort) out.sort(...): with two rows or more the comparator
\* reads a.value[field] of every row, a TypeError when a value is null
QuerySort(q, sort) ==
    IF ~q.ok \/ sort.order = 0 THEN q
    ELSE IF Len(q.rows) >= 2 /\ \E i \in 1..Len(q.rows) : q.rows[i].value[<< >>].t = "null"
         THEN QThrew
         ELSE QRows(SortRows(q.rows, sort, << >>))

\* out.slice(from) and out.slice(0, to), from and to not negative
Slice(rows, from, to) ==
    SubSeq(rows, from + 1, IF to < Len(rows) THEN to ELSE Len(rows))

\* if (options.skip) out = out.slice(options.skip)
QuerySkip(q, skip) ==
    IF q.ok /\ skip.given /\ skip.n # 0
    THEN QRows(Slice(q.rows, skip.n, Len(q.rows))) ELSE q

\* if (options.limit) out = out.slice(0, options.limit)
QueryLimit(q, limit) ==
    IF q.ok /\ limit.given /\ limit.n # 0
    THEN QRows(Slice(q.rows, 0, limit.n)) ELSE q

\* the rows pushed by the loop
QueryMatches(root, filter) == QueryLoop(root, EntryNames(root), filter, << >>)

QueryEnd(S, q) == IF q.ok THEN Returns(S, RowsRes(q.rows)) ELSE Throws(S)

\* DarkDB.query: if (!root || typeof root !== "object") return []
QueryBody(S, prefix, filter, options) ==
    IF PrefixRoot(S, prefix) = Absent THEN Returns(S, RowsRes(<< >>))
    ELSE QueryEnd(S, QueryLimit(QuerySkip(QuerySort(
             QueryMatches(PrefixRoot(S, prefix), filter), options.sort),
             options.skip), options.limit))

-----------------------------------------------------------------------------
(* Transactions: DarkDB.transaction.  The handle is a second DarkDB object  *)
(* (autoFile false, no hooks) on copies of the tree and the expiry table;   *)
(* its _indexManager is the live one.                                       *)

\* what a unit holds between its steps
NoSnap == [data |-> Absent, expires |-> << >>, idx |-> EmptyIndex, timer |-> FALSE]
SnapOf(S) == [data |-> S.data, expires |-> S.expires, idx |-> S.idx, timer |-> S.timer]
NoLoc == [ok |-> TRUE, res |-> NoRes, snapshot |-> Absent, tdata |-> Absent,
          texpires |-> << >>, n |-> 0, ran |-> 0, inner |-> 0, pre |-> NoSnap]

\* the state the handle works on: its own tree and table, the shared index
TempS(S, loc) ==
    [data |-> loc.tdata, expires |-> loc.texpires, idx |-> S.idx, timer |-> FALSE,
     left |-> 0, events |-> << >>, listen |-> FALSE, now |-> S.now]

\* const snapshot = ...; const temp = new DarkDB(...); temp._data = ...
TxBegin(S, loc) ==
    [loc EXCEPT !.snapshot = JsonRoundTrip(S.data),
                !.tdata = JsonRoundTrip(S.data),
                !.texpires = S.expires,
                !.pre = SnapOf(S)]

\* one awaited operation of the body on the handle
TempBody(T, op, dt) ==
    CASE op.name = "set" -> SetBody(T, FALSE, op.key, op.val, op.ttl)
      [] op.name = "delete" -> DeleteBody(T, FALSE, op.key)
      [] op.name = "get" -> GetBody(T, FALSE, op.key, dt)
      [] OTHER -> AllBody(T, FALSE)

\* the commit: fn returned
TxCommit(S, af, loc) ==
    Emit(ScheduleSave([S EXCEPT !.data = loc.tdata,
                                !.expires = loc.texpires,
                                !.idx = RebuildIndex(loc.tdata)], af), "reset", NoKey)

\* the rollback: fn threw
TxRollback(S, loc) == [S EXCEPT !.data = loc.snapshot]

-----------------------------------------------------------------------------
(* The files of a store: this.file, this.metaFile and their .tmp files *)

\* A file is missing (st "none"), holds the beginning of a text that is
\* being written (st "partial") or a complete text (st "full"): of the data
\* file the value the text denotes (body), of the metadata file the table
\* (table).
NoFile == [st |-> "none", body |-> Absent, table |-> << >>]
Partial == [st |-> "partial", body |-> Absent, table |-> << >>]
DataText(body) == [st |-> "full", body |-> body, table |-> << >>]
MetaText(table) == [st |-> "full", body |-> Absent, table |-> table]
NoFiles == [data |-> NoFile, meta |-> NoFile, tmpData |-> NoFile, tmpMeta |-> NoFile]

\* a write that goes to the target itself whatever the mode
DataTargetDirect(at) == "data"

\* the file _saveNow writes the data to, and the metadata to: the .tmp
\* files when atomic, the targets otherwise
DataTarget(at) == IF at THEN "tmpData" ELSE "data"
MetaTarget(at) == IF at THEN "tmpMeta" ELSE "meta"

\* fsp.writeFile: the file is truncated and written piece by piece
WriteBegins(files, name) == [files EXCEPT ![name] = Partial]
WriteEnds(files, name, text) == [files EXCEPT ![name] = text]
\* fsp.rename: the target is replaced in one step
Rename(files, from, to) == [files EXCEPT ![to] = files[from], ![from] = NoFile]

\* a first rename that replaces the metadata file
RenameMetaFirst(files) == Rename(files, "tmpMeta", "meta")

\* await fsp.rename(tmpFile, this.file), then
\* await fsp.rename(tmpMetaFile, this.metaFile)
RenameData(files) == Rename(files, "tmpData", "data")
RenameMeta(files) == Rename(files, "tmpMeta", "meta")

-----------------------------------------------------------------------------
(* State *)

vars == <<data, expires, indexes, saveTimer, saveLeft, events, listening, autoFile,
          debounceMs, atomic, disk, now, queue, locked, running, nextId, track,
          started, finished>>

\* the whole state as one value
Cur ==
    [S |-> [data |-> data, expires |-> expires, idx |-> indexes,
            timer |-> saveTimer, left |-> saveLeft, events |-> events,
            listen |-> listening, now |-> now],
     disk |-> disk, queue |-> queue, locked |-> locked, running |-> running,
     nextId |-> nextId, started |-> started, finished |-> finished]

BecomesValue(M) ==
    /\ data' = M.S.data
    /\ expires' = M.S.expires
    /\ indexes' = M.S.idx
    /\ saveTimer' = M.S.timer
    /\ saveLeft' = M.S.left
    /\ events' = M.S.events
    /\ disk' = M.disk
    /\ now' = M.S.now
    /\ queue' = M.queue
    /\ locked' = M.locked
    /\ running' = M.running
    /\ nextId' = M.nextId
    /\ started' = M.started
    /\ finished' = M.finished
    /\ UNCHANGED <<listening, autoFile, debounceMs, atomic, track>>

\* the state becomes M, which is computed once
Becomes(M) == \E m \in {M} : BecomesValue(m)

-----------------------------------------------------------------------------
(* Mutex *)

IsRead(name) == name \in {"get", "has", "all", "keys", "entries", "export", "query"}

\* a started task: the queued unit q, where it stands and what it holds
Task(q, pc, loc) ==
    [id |-> q.id, op |-> q.op, waited |-> q.waited, at |-> q.at, pc |-> pc, loc |-> loc]

\* the body of a unit up to its first await
\* the body of a read
ReadBody(S, op, dt) ==
    CASE op.name = "get" -> GetBody(S, autoFile, op.key, dt)
      [] op.name = "has" -> HasBody(S, autoFile, op.key, dt)
      [] op.name = "all" -> AllBody(S, autoFile)
      [] op.name = "keys" -> KeysBody(S, op.key)
      [] op.name = "entries" -> EntriesBody(S, op.key)
      [] op.name = "query" -> QueryBody(S, op.key, op.filter, op.options)
      [] OTHER -> ExportBody(S)

\* a body without awaits ran to its end with outcome b
RanToEnd(u, b) ==
    [S |-> b.S, u |-> Task(u, "ret", [NoLoc EXCEPT !.ok = b.ok, !.res = b.res])]

StartUnit(S, u, dt) ==
    CASE IsRead(u.op.name) -> RanToEnd(u, ReadBody(S, u.op, dt))
      [] IsNumOp(u.op.name) ->
           RanToEnd(u, NumOpBody(S, autoFile, u.op.name, u.op.key, u.op.n))
      [] u.op.name \in {"set", "delete"} ->
           [S |-> S, u |-> Task(u, "pre", NoLoc)]
      [] u.op.name = "transaction" ->
           [S |-> S, u |-> Task(u, "body", TxBegin(S, NoLoc))]
      [] OTHER -> \* _saveNow, up to await fsp.mkdir
           [S |-> S, u |-> Task(u, "io", [NoLoc EXCEPT !.texpires = S.expires])]

\* Mutex._next
\* const t = this.queue.shift(); this.locked = true; t(); st is the task up
\* to its first await
Shift(M, st) ==
    [M EXCEPT !.queue = Tail(M.queue),
              !.locked = TRUE,
              !.S = st.S,
              !.running = M.running \cup {st.u},
              !.started = IF track THEN Append(M.started, st.u.id) ELSE M.started]

MutexNext(M, dt) ==
    IF M.queue = << >>
    THEN [M EXCEPT !.locked = FALSE]
    ELSE Shift(M, StartUnit(M.S, Head(M.queue), dt))

\* Mutex.run: this.queue.push(task); if (!this.locked) this._next()
\* the id of the next unit
NewId(M) == IF track THEN M.nextId + 1 ELSE 0

\* this.queue.push(task)
Push(M, op) ==
    [M EXCEPT !.queue = Append(M.queue, [id |-> NewId(M), op |-> op,
                                         waited |-> track /\ M.locked,
                                         at |-> IF track THEN M.S.now ELSE 0]),
              !.nextId = NewId(M),
              !.finished = IF track \/ op.name = "save" THEN M.finished ELSE << >>]

\* a run that starts the task whether or not another holds the lock
NextAlways(M, dt) == MutexNext(M, dt)

\* if (!this.locked) this._next()
NextUnlessLocked(M, dt) == IF ~M.locked THEN MutexNext(M, dt) ELSE M

MutexRun(M, op, dt) == NextUnlessLocked(Push(M, op), dt)

\* what is remembered of a completed unit: its outcome, when it was
\* submitted (at) and when its mutation ran (ran) and, of a transaction,
\* whether its _setSync ran or its _deleteSync returned true (wrote, kept
\* where the debounce window is modelled),
\* whether fn returned (fnOk), the live state when it began (pre), its
\* workspace when fn ended (ws) and the live state its commit or rollback
\* left (post)
Completion(u, ok, res, ws, post) ==
    [id |-> u.id, op |-> u.op, waited |-> u.waited, at |-> u.at, ran |-> u.loc.ran,
     wrote |-> debounceMs > 0 /\ u.pc = "post" /\ (u.op.name = "set" \/ u.loc.res.flag),
     ok |-> ok, fnOk |-> ok, res |-> res, pre |-> u.loc.pre, ws |-> ws, post |-> post]

Remember(M, rec) ==
    IF track THEN Append(M.finished, rec)
    ELSE IF rec.op.name = "transaction" THEN <<rec>> ELSE M.finished

\* an end of task whose rejection path does not reach this._next()
TaskEndNoFinally(M, u, rec, dt) ==
    IF rec.ok
    THEN MutexNext([M EXCEPT !.running = M.running \ {u},
                             !.finished = Remember(M, rec)], dt)
    ELSE [M EXCEPT !.running = M.running \ {u}, !.finished = Remember(M, rec)]

\* the end of a task: resolve(res) or reject(e), finally this._next()
TaskEnd(M, u, rec, dt) ==
    MutexNext([M EXCEPT !.running = M.running \ {u},
                        !.finished = Remember(M, rec)], dt)

-----------------------------------------------------------------------------
(* Inputs *)

\* "a", "a.0" and "."
KeyA == <<"a">>
KeyA0 == <<"a", "0">>
KeyDot == <<"", "">>
Keys == {KeyA, KeyA0, KeyDot}

\* 7, [7] and {title: "N"}
VNum == [p \in {<< >>} |-> NumN(7)]
VArr == [p \in {<< >>, <<"0">>} |-> IF p = << >> THEN ArrN(1) ELSE NumN(7)]
VDoc == [p \in {<< >>, <<"title">>} |-> IF p = << >> THEN ObjN ELSE StrN(<<"N">>)]
Vals == {VNum, VArr, VDoc}

\* opts.ttlMs: none, or one millisecond
Ttls == {0, 1}

SetOps(K, V, T) == {Op("set", k, v, t) : k \in K, v \in V, t \in T}
KeyOps(name, K) == {Op(name, k, Absent, 0) : k \in K}
PlainOp(name) == Op(name, NoKey, Absent, 0)

\* Spec: what a caller does on the store
Ops == SetOps(Keys, Vals, Ttls) \cup KeyOps("delete", Keys) \cup KeyOps("get", Keys)
         \cup KeyOps("has", {KeyA}) \cup KeyOps("keys", {NoKey, KeyA})
         \cup KeyOps("entries", {NoKey}) \cup {PlainOp("all"), PlainOp("export")}

\* SpecTx: what a caller does on the store, and a transaction body on its handle
OpsTx == SetOps({KeyA, KeyA0}, {VArr, VDoc}, {0}) \cup KeyOps("delete", {KeyA, KeyA0})
           \cup {PlainOp("transaction")}
TxOps == SetOps({KeyA, KeyA0}, {VArr, VDoc}, Ttls) \cup KeyOps("delete", {KeyA, KeyA0})
           \cup KeyOps("get", {KeyA})

\* SpecIx: documents, and the texts searched for
\* "a.1"
KeyA1 == <<"a", "1">>
\* "N g", "j" and "g"
TextNG == <<"N", " ", "g">>
TextJ == <<"j">>
TextG == <<"g">>
\* {title: "N g"}, {title: "j", description: "g"} and [{title: "N g"}]
DocNode == [p \in {<< >>, <<"title">>} |-> IF p = << >> THEN ObjN ELSE StrN(TextNG)]
DocJs ==
    [p \in {<< >>, <<"title">>, <<"description">>} |->
        IF p = << >> THEN ObjN ELSE IF p = <<"title">> THEN StrN(TextJ) ELSE StrN(TextG)]
ArrNode == Graft([p \in {<< >>} |-> ArrN(1)], <<"0">>, DocNode)
\* "N", "g", "n  g", "g N", "j g", "z", "N z", "z N", "" and " "
Queries ==
    {<<"N">>, TextG, <<"n", " ", " ", "g">>, <<"g", " ", "N">>, <<"j", " ", "g">>,
     <<"z">>, <<"N", " ", "z">>, <<"z", " ", "N">>, << >>, <<" ">>}
OpsIx == SetOps({KeyA, KeyA0, KeyA1}, {DocNode, DocJs, ArrNode}, {0})
           \cup KeyOps("delete", {KeyA0})

\* SpecFair: what callers submit to the serializer
OpsFair == SetOps({KeyA}, {VNum}, {0}) \cup KeyOps("get", {KeyA})

\* SpecLive: what a caller does before it stops calling
OpsLive == SetOps({KeyA0}, {VNum}, Ttls) \cup SetOps({KeyA}, {VNum}, {0})
             \cup KeyOps("delete", {KeyA, KeyA0}) \cup KeyOps("get", {KeyA})

\* SpecNum: numeric operations on "a" and on ".", and a set of "b"
KeyB == <<"b">>
NumOp(name, key, n) == [name |-> name, key |-> key, val |-> Absent, ttl |-> 0, n |-> n]
OpsNum == {NumOp("add", KeyA, 2), NumOp("remove", KeyA, 2), NumOp("incr", KeyA, 1),
           NumOp("decr", KeyA, 1), NumOp("incr", KeyDot, 1), Op("set", KeyB, VNum, 0)}

\* SpecDeb: the mutations callers submit to a store that saves
OpsDeb == SetOps({KeyA}, {VNum}, {0}) \cup KeyOps("delete", {KeyA})

\* SpecRe: what callers and hooks submit
OpsRe == SetOps({KeyA}, {VNum}, {0}) \cup KeyOps("get", {KeyA})

\* SpecEv: what callers submit to a store with listeners
OpsEv == SetOps({KeyA}, {VNum}, Ttls) \cup KeyOps("delete", {KeyA})
           \cup KeyOps("get", {KeyA})

\* SpecDisk: what a caller does on a store that saves to its files
OpsDisk == SetOps({KeyA}, {VNum, VArr}, Ttls) \cup KeyOps("delete", {KeyA})
             \cup KeyOps("get", {KeyA})

\* SpecQy: the documents of a collection, and the queries on it
\* "u", "u.0", "u.1" and "u.2"
KeyU == <<"u">>
KeyU0 == <<"u", "0">>
KeyU1 == <<"u", "1">>
KeyU2 == <<"u", "2">>
Age(n) == [p \in {<< >>} |-> NumN(n)]
Name(c) == [p \in {<< >>} |-> StrN(<<c>>)]
VNull == [p \in {<< >>} |-> NullN]
\* {name: "A", age: 25}, {name: "B", age: 30} and {age: 25, kid: {age: 30}}
Person(c, n) == Graft(Graft(EmptyObj, <<"name">>, Name(c)), <<"age">>, Age(n))
Alice == Person("A", 25)
Bob == Person("B", 30)
Parent == Graft(Graft(EmptyObj, <<"age">>, Age(25)), <<"kid">>,
                Graft(EmptyObj, <<"age">>, Age(30)))
\* the filters: {}, {age: 25}, {name: "B", age: 30}, {age: {$gte: 26}},
\* {age: {$gt: 25, $lte: 30}}, {age: {$lt: 30}}, {age: {$eq: 30}},
\* {age: {$ne: 25}}, {age: {$in: [25, 40]}}, {name: {$nin: ["A"]}},
\* {$and: [{age: {$gte: 25}}, {name: "A"}]}, {$or: [{name: "B"}, {age: 25}]},
\* {$not: {age: 25}}
AgeIs(ops) == Fields(<<Rule("age", OpRule(ops))>>)
MatchAll == Fields(<< >>)
Filters ==
    {MatchAll,
     Fields(<<Rule("age", Lit(Age(25)))>>),
     Fields(<<Rule("name", Lit(Name("B"))), Rule("age", Lit(Age(30)))>>),
     AgeIs(<<Cmp("$gte", Age(26))>>),
     AgeIs(<<Cmp("$gt", Age(25)), Cmp("$lte", Age(30))>>),
     AgeIs(<<Cmp("$lt", Age(30))>>),
     AgeIs(<<Cmp("$eq", Age(30))>>),
     AgeIs(<<Cmp("$ne", Age(25))>>),
     AgeIs(<<Cmp("$in", <<Age(25), Age(40)>>)>>),
     Fields(<<Rule("name", OpRule(<<Cmp("$nin", <<Name("A")>>)>>))>>),
     And(<<AgeIs(<<Cmp("$gte", Age(25))>>), Fields(<<Rule("name", Lit(Name("A")))>>)>>),
     Or(<<Fields(<<Rule("name", Lit(Name("B")))>>), Fields(<<Rule("age", Lit(Age(25)))>>)>>),
     Not(Fields(<<Rule("age", Lit(Age(25)))>>))}
\* the options: sort by age, ascending or descending, skip and limit up to
\* MaxSlice
Sorts == {NoSort, [field |-> "age", order |-> 1], [field |-> "age", order |-> -1]}
Counts == {NotGiven} \cup {Given(n) : n \in 0..MaxSlice}
AllOptions == [sort : Sorts, skip : Counts, limit : Counts]
QueryOp(key, filter, options) ==
    [name |-> "query", key |-> key, val |-> Absent, ttl |-> 0,
     filter |-> filter, options |-> options]
OpsQy ==
    SetOps({KeyU0, KeyU1, KeyU2}, {Alice, Bob, Parent, VNum, VNull}, {0})
        \cup {QueryOp(k, f, NoOptions) : k \in {NoKey, KeyU, KeyU0}, f \in Filters}
        \cup {QueryOp(KeyU, f, o) : f \in {MatchAll, AgeIs(<<Cmp("$gte", Age(26))>>)},
                                    o \in AllOptions}

\* SpecQ: what a caller that does not await submits
OpsQ == SetOps({KeyA, KeyDot}, {VNum}, {0}) \cup KeyOps("get", {KeyA, KeyDot})
          \cup KeyOps("delete", {KeyA, KeyDot}) \cup {PlainOp("transaction")}

-----------------------------------------------------------------------------
(* Actions *)

IsClient(u) == u.op.name # "save"

\* the caller awaits each call before the next
ClientIdle ==
    /\ \A u \in running : ~IsClient(u)
    /\ \A i \in 1..Len(queue) : ~IsClient(queue[i])

\* the clock may advance inside a get that starts in this step (SpecQ leaves
\* the clock alone)
Dts(q) ==
    IF ~track /\ q # << >> /\ Head(q).op.name \in {"get", "has"} /\ now < MaxTime
    THEN {0, 1} ELSE {0}

Submit(op) ==
    \E dt \in (IF locked THEN {0} ELSE Dts(Append(queue, [op |-> op]))) :
        Becomes(MutexRun(Cur, op, dt))

\* a call of a caller that awaits each call
Call(op) == ClientIdle /\ Submit(op)

\* a call of a caller that does not await
Enqueue(op) == track /\ nextId < MaxUnits /\ Submit(op)

Replace(M, u, v) == [M EXCEPT !.running = (M.running \ {u}) \cup {v}]

Failure(u) == Completion(u, FALSE, NoRes, NoSnap, NoSnap)
Success(u, res) == Completion(u, TRUE, res, NoSnap, NoSnap)

\* the pre hooks of set or delete returned: the mutation, up to the post hooks
\* the mutation of set or delete
WriteBody(S, op) ==
    IF op.name = "set"
    THEN SetBody(S, autoFile, op.key, op.val, op.ttl)
    ELSE DeleteBody(S, autoFile, op.key)

\* the mutation had outcome b: on to the post hooks, or the task ends
Written(u, b) ==
    IF b.ok
    THEN Becomes(Replace([Cur EXCEPT !.S = b.S], u,
                         [u EXCEPT !.pc = "post", !.loc.res = b.res,
                                   !.loc.ran = IF track THEN now ELSE 0]))
    ELSE \E dt \in Dts(queue) :
            Becomes(TaskEnd([Cur EXCEPT !.S = b.S], u, Failure(u), dt))

\* await hook(payload) resumes: the hook awaits no call on the store, or
\* the promise of the call it awaits is settled
HookResumes(u) ==
    u.loc.inner = 0 \/ \E i \in 1..Len(finished) : finished[i].id = u.loc.inner

\* a hook of unit u calls an operation of the store and awaits it
HookCalls(u, op) ==
    /\ u.pc \in {"pre", "post"}
    /\ u.loc.inner = 0
    /\ track /\ nextId < MaxUnits
    /\ Becomes(Replace(MutexRun(Cur, op, 0), u, [u EXCEPT !.loc.inner = nextId + 1]))

PreHooksReturn(u) ==
    /\ u.pc = "pre"
    /\ HookResumes(u)
    /\ Written(u, WriteBody(Cur.S, u.op))

\* a pre hook that throws once the mutation is done
PreHookThrowsLate(u) ==
    /\ u.pc = "pre"
    /\ HookResumes(u)
    /\ \E dt \in Dts(queue) :
          Becomes(TaskEnd([Cur EXCEPT !.S = WriteBody(Cur.S, u.op).S], u, Failure(u), dt))

\* a pre hook threw
PreHookThrows(u) ==
    /\ u.pc = "pre"
    /\ HookResumes(u)
    /\ \E dt \in Dts(queue) : Becomes(TaskEnd(Cur, u, Failure(u), dt))

\* the post hooks returned: return v
PostHooksReturn(u) ==
    /\ u.pc = "post"
    /\ HookResumes(u)
    /\ \E dt \in Dts(queue) : Becomes(TaskEnd(Cur, u, Success(u, u.loc.res), dt))

\* a post hook threw
PostHookThrows(u) ==
    /\ u.pc = "post"
    /\ HookResumes(u)
    /\ \E dt \in Dts(queue) : Becomes(TaskEnd(Cur, u, Failure(u), dt))

\* the task of a body without awaits resumes after await fn()
TaskReturns(u) ==
    /\ u.pc = "ret"
    /\ \E dt \in Dts(queue) :
          Becomes(TaskEnd(Cur, u, Completion(u, u.loc.ok, u.loc.res, NoSnap, NoSnap), dt))

\* an operation on the handle had outcome b: the handle keeps its tree and
\* table, the live object the index
TxStepped(u, b) ==
    Becomes(Replace([Cur EXCEPT !.S.idx = b.S.idx, !.S.now = b.S.now], u,
                    [u EXCEPT !.loc.tdata = b.S.data,
                              !.loc.texpires = b.S.expires,
                              !.loc.n = u.loc.n + 1]))

\* the body of a transaction awaits one operation on its handle
TxStep(u, op) ==
    /\ u.pc = "body"
    /\ u.loc.n < MaxTxOps
    /\ \E dt \in (IF op.name = "get" /\ now < MaxTime THEN {0, 1} ELSE {0}) :
          TxStepped(u, TempBody(TempS(Cur.S, u.loc), op, dt))

Workspace(S, loc) ==
    [data |-> loc.tdata, expires |-> loc.texpires, idx |-> S.idx, timer |-> FALSE]

\* the task of a transaction ends, its commit or rollback having left S1
TxEnds(u, ok, res, S1) ==
    \E dt \in Dts(queue) :
        Becomes(TaskEnd([Cur EXCEPT !.S = S1], u,
                        Completion(u, ok, res, Workspace(Cur.S, u.loc), SnapOf(S1)), dt))

\* the task of a transaction whose fn returned ends rejected
TxEndsRejected(u, S1) ==
    \E dt \in Dts(queue) :
        Becomes(TaskEnd([Cur EXCEPT !.S = S1], u,
                        [Completion(u, FALSE, NoRes, Workspace(Cur.S, u.loc), SnapOf(S1))
                            EXCEPT !.fnOk = TRUE], dt))

\* the body of a transaction returned
TxReturns(u) ==
    /\ u.pc = "body"
    /\ TxEnds(u, TRUE, FlagRes(TRUE), TxCommit(Cur.S, autoFile, u.loc))

\* the body of a transaction threw
TxThrows(u) ==
    /\ u.pc = "body"
    /\ TxEnds(u, FALSE, NoRes, TxRollback(Cur.S, u.loc))

\* the body of a transaction returned and a listener of "reset" threw: the
\* commit up to the emit, then the catch block
ResetListenerThrows(u) ==
    /\ u.pc = "body"
    /\ TxEndsRejected(u, TxRollback(TxCommit(Cur.S, autoFile, u.loc), u.loc))

\* the file writes of _saveNow completed (what the files hold is followed
\* step by step in SpecDisk, not here)
SaveDone(u) ==
    /\ u.pc = "io"
    /\ \E dt \in Dts(queue) : Becomes(TaskEnd(Cur, u, Success(u, NoRes), dt))

\* _saveNow after await fsp.mkdir: this.driver.write computes
\* JSON.stringify(data) and starts writing it
SaveMkdirDone(u) ==
    /\ u.pc = "io"
    /\ Becomes(Replace([Cur EXCEPT !.disk = WriteBegins(disk, DataTarget(atomic))], u,
                        [u EXCEPT !.pc = "data", !.loc.tdata = Stringify(data)]))

\* the data is written: fsp.writeFile of the metadata starts
SaveDataWritten(u) ==
    /\ u.pc = "data"
    /\ Becomes(Replace([Cur EXCEPT !.disk =
                            WriteBegins(WriteEnds(disk, DataTarget(atomic),
                                                  DataText(u.loc.tdata)),
                                        MetaTarget(atomic))], u,
                        [u EXCEPT !.pc = "meta"]))

\* the metadata is written, not atomic: _saveNow returns
SaveMetaWrittenDirect(u) ==
    /\ u.pc = "meta"
    /\ ~atomic
    /\ \E dt \in Dts(queue) :
          Becomes(TaskEnd([Cur EXCEPT !.disk = WriteEnds(disk, MetaTarget(atomic),
                                                         MetaText(u.loc.texpires))],
                          u, Success(u, NoRes), dt))

\* the metadata is written, atomic: fsp.rename(tmpFile, this.file) starts
SaveMetaWritten(u) ==
    /\ u.pc = "meta"
    /\ atomic
    /\ Becomes(Replace([Cur EXCEPT !.disk = WriteEnds(disk, MetaTarget(atomic),
                                                      MetaText(u.loc.texpires))], u,
                        [u EXCEPT !.pc = "rename"]))

\* the data file is renamed: fsp.rename(tmpMetaFile, this.metaFile) starts
SaveDataRenamed(u) ==
    /\ u.pc = "rename"
    /\ Becomes(Replace([Cur EXCEPT !.disk = RenameData(disk)], u,
                        [u EXCEPT !.pc = "renameMeta"]))

\* the metadata file is renamed: _saveNow returns
SaveMetaRenamed(u) ==
    /\ u.pc = "renameMeta"
    /\ \E dt \in Dts(queue) :
          Becomes(TaskEnd([Cur EXCEPT !.disk = RenameMeta(disk)],
                          u, Success(u, NoRes), dt))

SaveSteps(u) ==
    \/ SaveMkdirDone(u)
    \/ SaveDataWritten(u)
    \/ SaveMetaWrittenDirect(u)
    \/ SaveMetaWritten(u)
    \/ SaveDataRenamed(u)
    \/ SaveMetaRenamed(u)

\* JsonDriver.read is an async function: what it returns is a Promise
ReadReturnsPromise == TRUE

\* the try block of _loadDataSync: it threw, or the tree and the table it
\* leaves, from the empty ones of the constructor
LoadThrew == [ok |-> FALSE, data |-> EmptyObj, expires |-> << >>]
LoadMeta(files, tree) ==
    IF files.meta.st = "none" THEN [ok |-> TRUE, data |-> tree, expires |-> << >>]
    ELSE IF files.meta.st = "partial" THEN LoadThrew
         ELSE [ok |-> TRUE, data |-> tree, expires |-> files.meta.table]
LoadTry(files) ==
    IF files.data.st = "none" THEN LoadMeta(files, EmptyObj)
    ELSE IF ReadReturnsPromise \/ files.data.st = "partial" THEN LoadThrew
         ELSE LoadMeta(files, files.data.body)

\* the store new DarkDB(...) leaves on the files, autoFile enabled:
\* _loadDataSync, its catch block, _rebuildIndex and _cleanupExpiredSync
Loaded(l, t) ==
    CleanupExpiredSync([data |-> l.data, expires |-> l.expires,
                        idx |-> RebuildIndex(l.data), timer |-> FALSE, left |-> 0,
                        events |-> << >>, listen |-> listening, now |-> t], autoFile)

LoadDataSync(files, t) == Loaded(LoadTry(files), t)

\* the process ends, at any point, and a new one constructs the store on the
\* same files
Restart ==
    /\ autoFile
    /\ Becomes([S |-> LoadDataSync(disk, now), disk |-> disk, queue |-> << >>,
                locked |-> FALSE, running |-> {}, nextId |-> 0, started |-> << >>,
                finished |-> << >>])

\* the debounce timer fires: this._mutex.run(() => this._saveNow())
TimerFires ==
    /\ saveTimer
    /\ saveLeft = 0
    /\ \E dt \in (IF locked THEN {0} ELSE Dts(queue)) :
          Becomes(MutexRun([Cur EXCEPT !.S.timer = FALSE], PlainOp("save"), dt))

\* the clock runs to MaxTime, and to MaxClock where the debounce window is
\* modelled
TimeLimit == IF debounceMs = 0 THEN MaxTime ELSE MaxClock

\* a millisecond passes
Tick ==
    /\ now < TimeLimit
    /\ now' = now + 1
    /\ saveLeft' = IF saveLeft > 0 THEN saveLeft - 1 ELSE 0
    /\ UNCHANGED <<data, expires, indexes, saveTimer, events, listening, autoFile,
                   debounceMs, atomic, disk, queue, locked, running, nextId, track,
                   started, finished>>

InitStore ==
    /\ data = EmptyObj
    /\ expires = << >>
    /\ indexes = EmptyIndex
    /\ saveTimer = FALSE
    /\ saveLeft = 0
    /\ events = << >>
    /\ disk = NoFiles
    /\ now = 0
    /\ queue = << >>
    /\ locked = FALSE
    /\ running = {}
    /\ nextId = 0
    /\ started = << >>
    /\ finished = << >>

Hooks(u) ==
    \/ PreHooksReturn(u)
    \/ PreHookThrows(u)
    \/ PostHooksReturn(u)
    \/ PostHookThrows(u)

Transaction(u) ==
    \/ \E op \in TxOps : TxStep(u, op)
    \/ TxReturns(u)
    \/ TxThrows(u)
    \/ ResetListenerThrows(u)

Saves ==
    \/ TimerFires
    \/ \E u \in running : SaveDone(u)

\* Spec: a caller that awaits each call; reads, writes and expiry
\* no listeners, the timer due at once, atomic saves
Plain == listening = FALSE /\ debounceMs = 0 /\ atomic = TRUE

Init == InitStore /\ Plain /\ autoFile = TRUE /\ track = FALSE

Next ==
    \/ \E op \in Ops : Call(op)
    \/ \E u \in running : Hooks(u)
    \/ \E u \in running : TaskReturns(u)
    \/ Saves
    \/ Tick

Spec == Init /\ [][Next]_vars

\* SpecTx: a caller that awaits each call; writes and transactions
InitTx == InitStore /\ Plain /\ autoFile \in BOOLEAN /\ track = FALSE

NextTx ==
    \/ \E op \in OpsTx : Call(op)
    \/ \E u \in running : Hooks(u)
    \/ \E u \in running : Transaction(u)
    \/ Saves
    \/ Tick

SpecTx == InitTx /\ [][NextTx]_vars

\* SpecQ: a caller that does not await; the order of the units
InitQ == InitStore /\ Plain /\ autoFile = TRUE /\ track = TRUE

NextQ ==
    \/ \E op \in OpsQ : Enqueue(op)
    \/ \E u \in running : Hooks(u)
    \/ \E u \in running : TaskReturns(u)
    \/ \E u \in running : TxReturns(u)
    \/ \E u \in running : TxThrows(u)
    \/ Saves

SpecQ == InitQ /\ [][NextQ]_vars

\* a call of a caller that awaits each call and keeps the history
AwaitedCall(op) == ClientIdle /\ Enqueue(op)

\* what is remembered of a search: the query (as the key of the operation)
\* and the keys returned
SearchRec(query, found) ==
    [id |-> 0, op |-> Op("search", query, Absent, 0), waited |-> FALSE, at |-> 0,
     ran |-> 0, ok |-> TRUE, fnOk |-> TRUE, res |-> NamesRes(found), pre |-> NoSnap, ws |-> NoSnap,
     post |-> NoSnap]

Searched == {i \in 1..Len(finished) : finished[i].op.name = "search"}

\* the caller, no call under way, searches the index:
\* db._indexManager.search(query)
Search(query) ==
    /\ track
    /\ queue = << >> /\ running = {}
    /\ Cardinality(Searched) < MaxSearches
    /\ Becomes([Cur EXCEPT !.finished =
                   Append(finished, SearchRec(query, IndexSearch(indexes, query)))])

\* SpecIx: a caller that awaits each call; documents and searches
InitIx == InitStore /\ Plain /\ autoFile = FALSE /\ track = TRUE

NextIx ==
    \/ \E op \in OpsIx : AwaitedCall(op)
    \/ \E u \in running : Hooks(u)
    \/ \E q \in Queries : Search(q)

SpecIx == InitIx /\ [][NextIx]_vars

\* SpecQy: a caller that awaits each call; a collection and queries
InitQy == InitStore /\ Plain /\ autoFile = FALSE /\ track = FALSE

NextQy ==
    \/ \E op \in OpsQy : Call(op)
    \/ \E u \in running : Hooks(u)
    \/ \E u \in running : TaskReturns(u)

SpecQy == InitQy /\ [][NextQy]_vars

\* SpecDisk: a caller that awaits each call; the files, crashes and restarts
InitDisk ==
    /\ InitStore
    /\ listening = FALSE /\ debounceMs = 0 /\ atomic \in BOOLEAN
    /\ autoFile = TRUE /\ track = FALSE

NextDisk ==
    \/ \E op \in OpsDisk : Call(op)
    \/ \E u \in running : Hooks(u)
    \/ \E u \in running : TaskReturns(u)
    \/ TimerFires
    \/ \E u \in running : SaveSteps(u)
    \/ Restart
    \/ Tick

SpecDisk == InitDisk /\ [][NextDisk]_vars

\* SpecEv: callers that do not await, on a store with listeners of its
\* events; the clock stands still
InitEv ==
    /\ InitStore
    /\ listening = TRUE /\ debounceMs = 0 /\ atomic = TRUE
    /\ autoFile = TRUE /\ track = TRUE

NextEv ==
    \/ \E op \in OpsEv : Enqueue(op)
    \/ \E u \in running : Hooks(u)
    \/ \E u \in running : TaskReturns(u)
    \/ Saves

SpecEv == InitEv /\ [][NextEv]_vars

\* SpecRe: callers that do not await, and hooks that call the store
InitRe == InitStore /\ Plain /\ autoFile = FALSE /\ track = TRUE

NextRe ==
    \/ \E op \in OpsRe : Enqueue(op)
    \/ \E u \in running : \E op \in OpsRe : HookCalls(u, op)
    \/ \E u \in running : Hooks(u)
    \/ \E u \in running : TaskReturns(u)

SpecRe == InitRe /\ [][NextRe]_vars

\* SpecDeb: callers that do not await, on a store that saves DebounceMs
\* after the last _scheduleSave
InitDeb ==
    /\ InitStore
    /\ listening = FALSE /\ debounceMs = DebounceMs /\ atomic = TRUE
    /\ autoFile = TRUE /\ track = TRUE

NextDeb ==
    \/ \E op \in OpsDeb : nextId < MaxBurst /\ Enqueue(op)
    \/ \E u \in running : Hooks(u)
    \/ Saves
    \/ Tick

SpecDeb == InitDeb /\ [][NextDeb]_vars

\* SpecNum: callers that do not await, numeric operations among them
InitNum == InitStore /\ Plain /\ autoFile = TRUE /\ track = TRUE

NextNum ==
    \/ \E op \in OpsNum : Enqueue(op)
    \/ \E u \in running : Hooks(u)
    \/ \E u \in running : TaskReturns(u)
    \/ Saves

SpecNum == InitNum /\ [][NextNum]_vars

\* SpecLive: a caller that awaits each call and stops calling when the
\* clock reaches MaxTime; hooks return or throw, timers fire and file
\* operations complete
InitLive == InitDisk

\* the caller has stopped calling
Stopped == now = MaxTime

NextLive ==
    \/ \E op \in OpsLive : ~Stopped /\ Call(op)
    \/ \E u \in running : Hooks(u)
    \/ \E u \in running : TaskReturns(u)
    \/ TimerFires
    \/ \E u \in running : SaveSteps(u)
    \/ Tick

\* what the store does by itself
Runs ==
    \/ \E u \in running : Hooks(u)
    \/ \E u \in running : TaskReturns(u)
    \/ TimerFires
    \/ \E u \in running : SaveSteps(u)

Progress == WF_vars(Runs)

SpecLive == InitLive /\ [][NextLive]_vars /\ Progress

\* SpecFair: callers that do not await; the body of every unit goes on
\* until it ends
InitFair == InitStore /\ Plain /\ autoFile = FALSE /\ track = TRUE

\* a running unit takes its next step
UnitSteps ==
    \/ \E u \in running : Hooks(u)
    \/ \E u \in running : TaskReturns(u)

NextFair ==
    \/ \E op \in OpsFair : Enqueue(op)
    \/ UnitSteps

SpecFair == InitFair /\ [][NextFair]_vars /\ WF_vars(UnitSteps)

-----------------------------------------------------------------------------
(* Properties *)

\* the completed units of callers, oldest first (SpecQ keeps them all)
ClientRecs == SelectSeq(finished, LAMBDA r : r.op.name # "save")

\* the tree has a property where a write under key would put it
Holds(tree, key) ==
    /\ tree # Absent
    /\ GetRef(tree, ResolvePath(key), FALSE).ok
    /\ (GetRef(tree, ResolvePath(key), FALSE).ref
          \o <<GetRef(tree, ResolvePath(key), FALSE).last>>) \in DOMAIN tree

\* the units whose body ran in this step to its end
RanNow == {v \in running' \ running : v.pc = "ret"}

\* C1: when set(k, v) without ttl completed successfully and get(k) is the
\* next operation run on the store, that get returns a value equal to v.
SetThenGetReturnsValue ==
    \A i \in 1..(Len(ClientRecs) - 1) :
        (/\ ClientRecs[i].op.name = "set"
         /\ ClientRecs[i].ok
         /\ ClientRecs[i].op.ttl = 0
         /\ ClientRecs[i + 1].op.name = "get"
         /\ ClientRecs[i + 1].op.key = ClientRecs[i].op.key)
        => (ClientRecs[i + 1].ok /\ ClientRecs[i + 1].res.val = ClientRecs[i].op.val)

DeleteThenGetAbsent ==
    \A i \in 1..(Len(ClientRecs) - 1) :
        (/\ ClientRecs[i].op.name = "delete"
         /\ ClientRecs[i].ok
         /\ ClientRecs[i + 1].op.name = "get"
         /\ ClientRecs[i + 1].op.key = ClientRecs[i].op.key)
        => (ClientRecs[i + 1].ok /\ ClientRecs[i + 1].res.val = Absent)

DeleteOfAbsentKey ==
    \A u \in running, v \in running' :
        (/\ u.pc = "pre" /\ u.op.name = "delete"
         /\ ~ResolveThrows(u.op.key)
         /\ GetSync(data, u.op.key) = Absent
         /\ v.id = u.id /\ v.pc = "post")
        => (~v.loc.res.flag /\ data' = data)

\* C2: after delete(k) completed, a get(k) that runs next returns Absent; and
\* delete(k) of a key absent from the tree returns false and leaves the tree
\* as it was.
DeleteThenGet == [][DeleteThenGetAbsent' /\ DeleteOfAbsentKey]_vars

\* C3: at most one unit is between its start and its completion: every unit
\* that started has completed, except the one that runs, which holds the lock.
AtMostOneRunning ==
    /\ Cardinality(running) <= 1
    /\ running # {} => locked
    /\ Len(started) = Len(finished) + Cardinality(running)

\* a set or delete is suspended at a hook while a transaction and a debounced
\* save wait in the queue
SuspendedWithQueue ==
    \E u \in running :
        /\ u.pc \in {"pre", "post"}
        /\ \E i \in 1..Len(queue) : queue[i].op.name = "transaction"
        /\ \E i \in 1..Len(queue) : queue[i].op.name = "save"

\* units start and complete in the order of their submission
FifoOrder ==
    /\ \A i \in 1..Len(started) : started[i] = i
    /\ \A i \in 1..Len(finished) : finished[i].id = i

GetAfterSet ==
    \A i \in 1..Len(finished), j \in 1..Len(finished) :
        (/\ i < j
         /\ finished[i].op.name = "set" /\ finished[i].ok /\ finished[i].op.ttl = 0
         /\ finished[j].op.name = "get" /\ finished[j].op.key = finished[i].op.key
         /\ \A m \in (i + 1)..(j - 1) :
               /\ finished[m].op.name # "transaction"
               /\ finished[m].op.name \in {"set", "delete"}
                     => finished[m].op.key # finished[i].op.key)
        => (finished[j].ok /\ finished[j].res.val = finished[i].op.val)

\* C4: units start and complete in exactly their submission order, and a
\* get(k) submitted after a set(k, v), with no other write to k between them,
\* returns v.
FifoAndGetAfterSet == FifoOrder /\ GetAfterSet

\* a unit failed in this step
FailedNow == Len(finished') = Len(finished) + 1 /\ ~finished'[Len(finished')].ok

\* C5: when the body of a unit raises, the rejection is the outcome of that
\* unit alone, the unit at the head of the queue starts in the same step, and
\* the serializer is never left locked with no unit running.
FailureAdvancesQueue ==
    [][/\ FailedNow =>
            /\ \E u \in running : u.id = finished'[Len(finished')].id
            /\ \A i \in 1..Len(finished) : finished'[i] = finished[i]
            /\ queue # << >> =>
                  /\ started' = Append(started, Head(queue).id)
                  /\ queue' = Tail(queue)
                  /\ \E v \in running' : v.id = Head(queue).id
            /\ queue = << >> => ~locked' /\ running' = {}
       /\ locked' => running' # {}
       /\ queue' # << >> => locked'
       /\ \A i \in 1..Len(finished') : finished'[i].id = i]_vars

\* a unit failed and the unit queued behind it ran and succeeded
FailedThenServed ==
    \E i \in 1..(Len(finished) - 1) :
        /\ ~finished[i].ok
        /\ finished[i + 1].ok
        /\ finished[i + 1].waited

\* C6: after a transaction whose body raised, the live tree is equal to the
\* tree as it was when the transaction started.
FailedTxRestoresTree ==
    \A i \in 1..Len(finished) :
        (finished[i].op.name = "transaction" /\ ~finished[i].fnOk)
        => finished[i].post.data = finished[i].pre.data

\* C7: after a transaction whose body raised, the live tree, the live expiry
\* table and the index are all equal to their values before the transaction.
FailedTxRestoresAll ==
    \A i \in 1..Len(finished) :
        (finished[i].op.name = "transaction" /\ ~finished[i].fnOk)
        => /\ finished[i].post.data = finished[i].pre.data
           /\ finished[i].post.expires = finished[i].pre.expires
           /\ finished[i].post.idx = finished[i].pre.idx

\* while the body of a transaction runs, the live tree and the live expiry
\* table are those of its start
TxIsolated ==
    \A u \in running :
        u.pc = "body" => (data = u.loc.pre.data /\ expires = u.loc.pre.expires)

\* the commit leaves the workspace's tree and table and a rebuilt index
TxCommitted(rec) ==
    /\ rec.post.data = rec.ws.data
    /\ rec.post.expires = rec.ws.expires
    /\ rec.post.idx = RebuildIndex(rec.post.data)

\* C8: when a transaction body returns, the live tree and the live expiry
\* table become the workspace's tree and table together, the index equals a
\* full rebuild over the new tree, and a save is scheduled (where autoFile
\* allows one).
TxCommitReplacesTogether ==
    /\ TxIsolated
    /\ \A i \in 1..Len(finished) :
          (finished[i].op.name = "transaction" /\ finished[i].fnOk)
          => (TxCommitted(finished[i]) /\ (finished[i].post.timer <=> autoFile))

\* C9: a get(k) executed when the expiry time set for k has passed returns
\* Absent, and an all() executed then does not contain k.
ExpiredKeyIsAbsent ==
    [][\A v \in RanNow :
          /\ (/\ v.op.name = "get"
              /\ ExpHas(expires, v.op.key)
              /\ now' >= ExpAt(expires, v.op.key))
             => (v.loc.ok /\ v.loc.res.val = Absent)
          /\ v.op.name = "all" =>
                \A i \in 1..Len(expires) :
                    now' >= expires[i].exp => ~Holds(v.loc.res.val, expires[i].k)]_vars

\* what a read returned has key k, a key with at least one segment
ReturnsKey(v, k) ==
    CASE v.op.name = "get" -> v.op.key = k /\ v.loc.res.val # Absent
      [] v.op.name = "has" -> v.op.key = k /\ v.loc.res.flag
      [] v.op.name = "keys" ->
            \E n \in v.loc.res.names : ResolvePath(k) = ResolvePath(v.op.key) \o <<n>>
      [] OTHER -> v.op.key = NoKey /\ Holds(v.loc.res.val, k)

\* C10: no read returns or lists a key whose expiry time has passed.
NoReadReturnsExpired ==
    [][\A v \in RanNow :
          \A i \in 1..Len(expires) :
              (/\ IsRead(v.op.name)
               /\ ResolvePath(expires[i].k) # << >>
               /\ now' >= expires[i].exp)
              => ~ReturnsKey(v, expires[i].k)]_vars


\* C11: whenever no operation is under way, the index table equals the table
\* a rebuild over the current tree yields: every container path is posted
\* under exactly the tokens of its indexed fields, and no other key is posted.
IndexEqualsRebuild == running = {} => indexes = RebuildIndex(data)


\* the tokens of the indexed text fields of a document
RECURSIVE FieldTokens(_, _)
FieldTokens(doc, i) ==
    IF i > Len(indexFields) THEN {}
    ELSE LET f == <<indexFields[i]>>
             words == IF f \in DOMAIN doc /\ doc[f].t = "str"
                      THEN Tokenize(doc[f].s) ELSE << >>
         IN {words[j] : j \in 1..Len(words)} \cup FieldTokens(doc, i + 1)

DocTokens(doc) == IF IsContainer(doc[<< >>]) THEN FieldTokens(doc, 1) ELSE {}

\* the keys posted under every token of the query
PostedUnderAll(idx, query) ==
    {k \in UNION {idx[w] : w \in DOMAIN idx} :
        \A j \in 1..Len(Tokenize(query)) :
            /\ Tokenize(query)[j] \in DOMAIN idx
            /\ k \in idx[Tokenize(query)[j]]}

\* the step of a search returns the keys posted under every token of the
\* query, and nothing for a query without tokens
SearchIsIntersection ==
    [][\A q \in Queries :
          Search(q) =>
             finished'[Len(finished')].res.names =
                IF Tokenize(q) = << >> THEN {} ELSE PostedUnderAll(indexes, q)]_vars

\* two keys neither of which lies at or under the other
Apart(k1, k2) ==
    /\ ~IsPrefix(ResolvePath(k1), ResolvePath(k2))
    /\ ~IsPrefix(ResolvePath(k2), ResolvePath(k1))

\* a search for one token made right after set(p1, doc1) and set(p2, doc2)
\* returns p1 and not p2 when the token is one of doc1 only
SearchAfterTwoSets ==
    \A i \in 1..(Len(finished) - 2) :
        (/\ finished[i].op.name = "set" /\ finished[i].ok
         /\ finished[i + 1].op.name = "set" /\ finished[i + 1].ok
         /\ Apart(finished[i].op.key, finished[i + 1].op.key)
         /\ finished[i + 2].op.name = "search"
         /\ Len(Tokenize(finished[i + 2].op.key)) = 1
         /\ Tokenize(finished[i + 2].op.key)[1]
               \in DocTokens(finished[i].op.val) \ DocTokens(finished[i + 1].op.val))
        => /\ finished[i].op.key \in finished[i + 2].res.names
           /\ finished[i + 1].op.key \notin finished[i + 2].res.names


\* C12: search(q) returns exactly the keys posted under every token of q,
\* and nothing when q has no token or a token has no postings; so after
\* set(p1, doc1) and set(p2, doc2) a search for a token of doc1 only returns
\* p1 and not p2.
SearchReturnsIntersection == SearchIsIntersection /\ []SearchAfterTwoSets


\* a document satisfies a filter
RECURSIVE Satisfies(_, _)
OpSatisfied(op, val, cmp) ==
    CASE op = "$eq" -> val = cmp
      [] op = "$ne" -> val # cmp
      [] op = "$gt" -> val # Absent /\ val[<< >>].t = "num" /\ val[<< >>].n > cmp[<< >>].n
      [] op = "$gte" -> val # Absent /\ val[<< >>].t = "num" /\ val[<< >>].n >= cmp[<< >>].n
      [] op = "$lt" -> val # Absent /\ val[<< >>].t = "num" /\ val[<< >>].n < cmp[<< >>].n
      [] op = "$lte" -> val # Absent /\ val[<< >>].t = "num" /\ val[<< >>].n <= cmp[<< >>].n
      [] op = "$in" -> \E i \in 1..Len(cmp) : val = cmp[i]
      [] OTHER -> \A i \in 1..Len(cmp) : val # cmp[i]
RuleSatisfied(val, rule) ==
    IF rule.t = "lit" THEN val = rule.v
    ELSE \A i \in 1..Len(rule.ops) : OpSatisfied(rule.ops[i].op, val, rule.ops[i].cmp)
Satisfies(doc, filter) ==
    CASE filter.t = "and" -> \A i \in 1..Len(filter.subs) : Satisfies(doc, filter.subs[i])
      [] filter.t = "or" -> \E i \in 1..Len(filter.subs) : Satisfies(doc, filter.subs[i])
      [] filter.t = "not" -> ~Satisfies(doc, filter.sub)
      [] OTHER -> \A i \in 1..Len(filter.rules) :
                     RuleSatisfied(Sub(doc, <<filter.rules[i].field>>), filter.rules[i].rule)

\* the immediate children of a container, in its key order
ChildRows(root) ==
    [i \in 1..Len(EntryNames(root)) |->
        [key |-> EntryNames(root)[i], value |-> Sub(root, <<EntryNames(root)[i]>>)]]

\* those of them that are containers and satisfy the filter
MatchingRows(root, filter) ==
    SelectSeq(ChildRows(root),
              LAMBDA r : IsContainer(r.value[<< >>]) /\ Satisfies(r.value, filter))

\* the queries that ran in this step
QueriedNow == {v \in RanNow : v.op.name = "query"}

\* C13: a query without options returns exactly the immediate children of
\* the container that are containers and satisfy the filter, as {key, value}
\* in the container's key order.
QueryReturnsMatches ==
    [][\A v \in QueriedNow :
          v.op.options = NoOptions =>
             /\ v.loc.ok
             /\ v.loc.res.rows = MatchingRows(PrefixRoot(Cur.S, v.op.key), v.op.filter)]_vars


\* the permutation that sorts the rows stably by the field: ascending for
\* order 1, descending otherwise, rows of equal field in their order
FieldOf(row, field) == Sub(row.value, <<field>>)[<< >>].n
InOrder(a, b, sort) ==
    IF sort.order = 1
    THEN FieldOf(a, sort.field) <= FieldOf(b, sort.field)
    ELSE FieldOf(a, sort.field) >= FieldOf(b, sort.field)
StablySorted(rows, sort) ==
    IF sort.order = 0 THEN rows
    ELSE LET p == CHOOSE f \in [1..Len(rows) -> 1..Len(rows)] :
                    /\ \A i, j \in 1..Len(rows) : i # j => f[i] # f[j]
                    /\ \A i, j \in 1..Len(rows) :
                          i < j => /\ InOrder(rows[f[i]], rows[f[j]], sort)
                                   /\ InOrder(rows[f[j]], rows[f[i]], sort) => f[i] < f[j]
         IN [i \in 1..Len(rows) |-> rows[p[i]]]

\* the sort is not asked for, or every row holds a number in its field
Sortable(rows, sort) ==
    sort.order = 0 \/ \A i \in 1..Len(rows) :
                         /\ rows[i].value[<< >>].t # "null"
                         /\ Sub(rows[i].value, <<sort.field>>) # Absent
                         /\ Sub(rows[i].value, <<sort.field>>)[<< >>].t = "num"

\* the first n entries, and the entries after the first n
FirstOf(rows, n) == SubSeq(rows, 1, IF n < Len(rows) THEN n ELSE Len(rows))
DropOf(rows, n) == SubSeq(rows, n + 1, Len(rows))
Skipped(rows, skip) == IF skip.given THEN DropOf(rows, skip.n) ELSE rows
Limited(rows, limit) == IF limit.given THEN FirstOf(rows, limit.n) ELSE rows

\* C14: the result of a query is the first `limit` entries of what is left
\* of the stably sorted matches after dropping the first `skip`; with a limit
\* n given it has at most n entries.
QuerySortSkipLimit ==
    [][\A v \in QueriedNow :
          (/\ QueryMatches(PrefixRoot(Cur.S, v.op.key), v.op.filter).ok
           /\ Sortable(QueryMatches(PrefixRoot(Cur.S, v.op.key), v.op.filter).rows,
                       v.op.options.sort)) =>
             /\ v.loc.ok
             /\ v.loc.res.rows =
                   Limited(Skipped(StablySorted(
                       QueryMatches(PrefixRoot(Cur.S, v.op.key), v.op.filter).rows,
                       v.op.options.sort), v.op.options.skip), v.op.options.limit)
             /\ v.op.options.limit.given => Len(v.loc.res.rows) <= v.op.options.limit.n]_vars

-----------------------------------------------------------------------------

\* a save has completed: both files hold a complete text and no save is
\* writing
SaveCompleted ==
    /\ disk.data.st = "full"
    /\ disk.meta.st = "full"
    /\ \A u \in running : u.op.name # "save"

\* the entries of a table that have not elapsed at time t
Unelapsed(table, t) == SelectSeq(table, LAMBDA e : t < e.exp)

\* C15: a store constructed on the files of a completed save holds the
\* expiry table that was saved less the entries that have elapsed, and, when
\* none has elapsed, the tree that was saved.
LoadReturnsSaved ==
    [][(Restart /\ SaveCompleted) =>
          /\ expires' = Unelapsed(disk.meta.table, now)
          /\ Unelapsed(disk.meta.table, now) = disk.meta.table =>
                data' = disk.data.body]_vars

-----------------------------------------------------------------------------

\* the save that is at the step pc
SaveAt(pc) == {u \in running : u.op.name = "save" /\ u.pc = pc}

\* neither target holds the beginning of a text
TargetsComplete == disk.data.st # "partial" /\ disk.meta.st # "partial"

\* a target changes only by becoming the complete text a save has written
TargetsReplaced ==
    /\ disk.data' # disk.data =>
          \E u \in SaveAt("rename") : disk.data' = DataText(u.loc.tdata)
    /\ disk.meta' # disk.meta =>
          \E u \in SaveAt("renameMeta") : disk.meta' = MetaText(u.loc.texpires)

\* C17: in atomic mode, wherever the process stops, the data file and the
\* metadata file each hold the complete text they held before the save or
\* the complete text of the save; the beginning of a text is only ever in a
\* .tmp file.
AtomicSaveKeepsTargets ==
    /\ [](atomic => TargetsComplete)
    /\ [][atomic => TargetsReplaced]_vars

\* a second save is writing its .tmp data file while the data file holds
\* the text of the first
TmpPartialTargetOld ==
    /\ atomic
    /\ disk.tmpData.st = "partial"
    /\ disk.data.st = "full"
    /\ disk.data.body # Stringify(data)

-----------------------------------------------------------------------------

\* the step starts no read: it ends a unit with nothing queued, or the unit
\* queued next is no read
StartsNoRead == queue = << >> \/ ~IsRead(Head(queue).op.name)

\* the last unit to have completed
LastDone == finished[Len(finished)]

\* C18: a pre hook of unit u that throws ends u rejected, and no other
\* unit: u does not go on to its post hooks, and, unless the step starts a
\* queued read, the tree, the expiry table, the index, the events emitted
\* and the save timer are as they were.
PreHookAborts ==
    [][\A u \in running : PreHookThrows(u) =>
          /\ Len(finished') = Len(finished) + 1
          /\ SubSeq(finished', 1, Len(finished)) = finished
          /\ finished'[Len(finished')].id = u.id
          /\ ~finished'[Len(finished')].ok
          /\ \A v \in running' : v.id # u.id
          /\ StartsNoRead =>
                /\ data' = data /\ expires' = expires /\ indexes' = indexes
                /\ events' = events
                /\ saveTimer' = saveTimer /\ saveLeft' = saveLeft]_vars

\* a set was rejected, and nothing was written, emitted or scheduled
SetAborted ==
    /\ finished # << >>
    /\ LastDone.op.name = "set" /\ ~LastDone.ok
    /\ data = EmptyObj /\ events = << >> /\ ~saveTimer
    /\ \A i \in 1..Len(started) : started[i] = LastDone.id

-----------------------------------------------------------------------------

\* C19: when a set or a delete emits its event, the expiry table is the one
\* the operation leaves and the post hooks of the operation have returned.
EventAfterPostHooks ==
    [][\A u \in running :
          (PreHooksReturn(u) /\ Len(events') > Len(events)) =>
             /\ events'[Len(events) + 1].expires = WriteBody(Cur.S, u.op).S.expires
             /\ \A v \in running' : v.id = u.id => v.pc # "post"]_vars

-----------------------------------------------------------------------------

\* the units that await a unit they submitted themselves
Nesting == {u \in running : u.loc.inner # 0}

Queued(id) == \E i \in 1..Len(queue) : queue[i].id = id
Done(id) == \E i \in 1..Len(finished) : finished[i].id = id

\* C20: once a running unit has submitted a unit and awaits it, the awaited
\* unit stays queued, neither of the two completes, and no unit starts or
\* completes any more.
NestedRunDeadlocks ==
    /\ [](\A u \in Nesting : Queued(u.loc.inner) /\ ~Done(u.loc.inner) /\ ~Done(u.id))
    /\ [][Nesting # {} =>
             /\ running' = running
             /\ started' = started
             /\ finished' = finished]_vars

\* a unit awaits the unit it submitted, and a unit submitted later waits
\* behind that one
NestedWithLaterQueued ==
    \E u \in Nesting :
        /\ Queued(u.loc.inner)
        /\ \E i \in 1..Len(queue) : queue[i].id > u.loc.inner

-----------------------------------------------------------------------------

\* the mutations that were made: the sets whose _setSync ran and the
\* deletes whose _deleteSync returned true; and the saves that were made
Mutations == SelectSeq(finished, LAMBDA r : r.wrote)
SavesMade == SelectSeq(finished, LAMBDA r : r.op.name = "save")

\* nothing is pending: no timer, no unit queued or running
Quiet == ~saveTimer /\ queue = << >> /\ running = {}

\* each mutation was submitted less than a window after the one before
IssuedClose(m) == \A i \in 1..(Len(m) - 1) : m[i + 1].at - m[i].at < debounceMs
\* each mutation ran less than a window after the one before
RanClose(m) == \A i \in 1..(Len(m) - 1) : m[i + 1].ran - m[i].ran < debounceMs

-----------------------------------------------------------------------------

\* the key yields no segment: "", or separators only
NoSegment(key) == ResolvePath(key) = << >>

\* C24: an operation on a key that yields no segment is rejected and writes
\* nothing: no completed set, get or delete on such a key has returned, and
\* the tree holds no entry under a missing last segment.
NoSegmentKeyRejected ==
    /\ \A i \in 1..Len(finished) :
          (finished[i].op.name \in {"set", "get", "delete"}
              /\ NoSegment(finished[i].op.key)) => ~finished[i].ok
    /\ <<"undefined">> \notin DOMAIN data

-----------------------------------------------------------------------------

\* the signed delta of a numeric operation
Delta(op) == IF op.name \in {"add", "incr"} THEN op.n ELSE 0 - op.n

\* the numeric operations on key k that have run: those of the units that
\* started, each with its delta
RanOn(k) ==
    {[id |-> u.id, d |-> Delta(u.op)] :
        u \in {v \in running : IsNumOp(v.op.name) /\ v.op.key = k}}
      \cup {[id |-> finished[i].id, d |-> Delta(finished[i].op)] :
              i \in {j \in 1..Len(finished) :
                        IsNumOp(finished[j].op.name) /\ finished[j].op.key = k}}

RECURSIVE SumOf(_)
RECURSIVE SumRest(_, _)
SumOf(ds) == IF ds = {} THEN 0 ELSE SumRest(ds, CHOOSE x \in ds : TRUE)
SumRest(ds, x) == x.d + SumOf(ds \ {x})

\* C21: with no other write to key k, the value stored at k is the sum of
\* the deltas of the numeric operations on k that have run (the initial
\* value, absent, counting as 0).
NumOpsAddUp ==
    \A k \in {KeyA, KeyDot} :
        RanOn(k) # {} => GetSync(data, k) = NumV(SumOf(RanOn(k)))

-----------------------------------------------------------------------------

\* the data file holds the text of save u, the metadata file is about to
\* be renamed
DataRenamed(u) == u.pc = "renameMeta" /\ disk.data = DataText(u.loc.tdata)

\* the metadata file is replaced only by the text of a save whose data text
\* the data file holds already, and keeps holding
MetaFollowsData ==
    disk.meta' # disk.meta =>
        \E u \in SaveAt("renameMeta") :
            /\ DataRenamed(u)
            /\ disk.data' = disk.data
            /\ disk.meta' = MetaText(u.loc.texpires)

\* the data file is replaced while the metadata file stays as it is
DataGoesFirst == disk.data' # disk.data => disk.meta' = disk.meta

\* C23: in atomic mode the data file is replaced first and the metadata file
\* second, in separate steps, so that where the process may stop the
\* metadata file is never of a later save than the data file.
DataRenamedBeforeMeta ==
    [][atomic => (MetaFollowsData /\ DataGoesFirst)]_vars

\* between the two renames: the data file is of the running save, the
\* metadata file still of the save before, whose table was another
BetweenRenames ==
    /\ atomic
    /\ \E u \in SaveAt("renameMeta") :
          /\ DataRenamed(u)
          /\ disk.meta.st = "full"
          /\ disk.meta # MetaText(u.loc.texpires)

-----------------------------------------------------------------------------

\* the expiry table E holds no entry for key k or for a path under k
NoEntryUnder(E, k) ==
    \A i \in 1..Len(E) : ~IsPrefix(ResolvePath(k), ResolvePath(E[i].k))

\* C25: when a delete of k, or a set of k without a TTL, has been carried
\* out, no expiry entry is left for k or for a path under k.
WriteClearsExpiryUnder ==
    [][\A u \in running :
          (/\ PreHooksReturn(u)
           /\ ~NoSegment(u.op.key)
           /\ u.op.name = "delete" \/ u.op.ttl = 0
           /\ WriteBody(Cur.S, u.op).ok) => NoEntryUnder(expires', u.op.key)]_vars

-----------------------------------------------------------------------------

\* the files hold the tree and the expiry table as they are in memory
OnDisk == disk.data = DataText(Stringify(data)) /\ disk.meta = MetaText(expires)

\* nothing was ever written or saved
Untouched == disk = NoFiles /\ data = EmptyObj /\ expires = << >>

\* C22: once the caller has stopped, the files come to hold the tree and
\* the expiry table of the store (unless nothing was ever changed).
ChangesReachDisk == Stopped ~> (OnDisk \/ Untouched)

-----------------------------------------------------------------------------

\* the unit with this id has been submitted, has started
Submitted(id) == nextId >= id
Started(id) == \E i \in 1..Len(started) : started[i] = id

\* the lock is held exactly while a unit runs, and a unit waits in the queue
\* only while another runs
LockedWhileRunning ==
    /\ locked <=> running # {}
    /\ queue # << >> => locked

\* C26: every unit that is submitted starts and completes, and the lock is
\* held exactly while a unit runs: when every unit submitted has completed,
\* the queue is empty and the lock is free.
EveryUnitCompletes ==
    /\ []LockedWhileRunning
    /\ [](Len(finished) = nextId => queue = << >> /\ ~locked)
    /\ \A id \in 1..MaxUnits : Submitted(id) ~> (Started(id) /\ Done(id))

\* every unit submitted has completed, one of them after waiting in the
\* queue, and the lock is free
AllDoneAfterWaiting ==
    /\ nextId >= 2
    /\ Len(finished) = nextId
    /\ \E i \in 1..Len(finished) : finished[i].waited
    /\ queue = << >> /\ ~locked

====
